---- MODULE Spec2Model ----
(***************************************************************************)
(* A model of the path tracer aarol/raytracing_in_one_weekend.             *)
(*                                                                         *)
(* Numbers.  The program computes in f64.  The model computes in exact     *)
(* rationals [n, d] (d > 0, lowest terms; d = 0 is +infinity), and every   *)
(* input set below is chosen so that each square root the program takes    *)
(* is the square root of a perfect square: on those inputs the rational    *)
(* result is the real-number result the f64 code approximates.             *)
(***************************************************************************)
EXTENDS Integers, Sequences, FiniteSets, TLC

VARIABLES
    pc,              \* position of the running operation
    ray,             \* the Ray handed to hit / ray_color / scatter
    ray_t,           \* HittableList::hit: the Interval argument
    objects,         \* HittableList.objects (the world)
    k,               \* HittableList::hit: number of objects already scanned
    closest_so_far,  \* HittableList::hit: local
    hit_anything,    \* HittableList::hit: local (Option<HitRecord>)
    obj_t,           \* the Interval passed to the latest obj.hit
    obj_rec,         \* what the latest obj.hit returned (Option<HitRecord>)
    depth,           \* ray_color: the depth argument of the outermost call
    draws,           \* the values the random generator hands out, in order
    calls,           \* ray_color: the nested calls made, outermost first
    scat,            \* Material::scatter: the record it was given and its result
    cam,             \* the Camera
    i,               \* render: column
    j,               \* render: scanline
    s,               \* render: samples taken for the current pixel
    pixel_color,     \* render: the accumulator; write_color: its argument
    sampled,         \* render: the (i, j, colour) of each sample of the current pixel
    out,             \* the lines printed to stdout
    err              \* the lines printed to stderr

hitVars == <<ray_t, k, closest_so_far, hit_anything, obj_t, obj_rec>>
colorVars == <<depth, draws, calls>>
renderVars == <<cam, i, j, s, pixel_color, sampled, out, err>>

vars == <<pc, ray, objects, hitVars, colorVars, scat, renderVars>>

-----------------------------------------------------------------------------
(* f64 arithmetic, as exact rationals *)

Abs(x) == IF x < 0 THEN -x ELSE x

RECURSIVE GCD(_, _)
GCD(a, b) == IF b = 0 THEN a ELSE GCD(b, a % b)

Rat(n, d) ==
    LET sign == IF d < 0 THEN -1 ELSE 1
        g == GCD(Abs(n), Abs(d))
    IN  [n |-> (sign * n) \div g, d |-> (sign * d) \div g]

R(v) == [n |-> v, d |-> 1]

Infinity == [n |-> 1, d |-> 0]

\* The square root of a positive quotient q that is not a quotient of perfect
\* squares is not a quotient of integers; it is kept as what it is, the root
\* of q.  Such a root can be compared, scaled by a positive quotient and
\* truncated to an integer, which is what write_color does with one; no other
\* operation takes one.
Surd(q) == [sqrt_of |-> q]
IsSurd(x) == "sqrt_of" \in DOMAIN x

RLt(x, y) ==
    CASE ~IsSurd(x) /\ ~IsSurd(y) -> x.n * y.d < y.n * x.d
      [] IsSurd(x) /\ ~IsSurd(y) ->
            y.n > 0 /\ x.sqrt_of.n * y.d * y.d < y.n * y.n * x.sqrt_of.d
      [] ~IsSurd(x) /\ IsSurd(y) ->
            x.n < 0 \/ x.n * x.n * y.sqrt_of.d < y.sqrt_of.n * x.d * x.d
      [] IsSurd(x) /\ IsSurd(y) ->
            x.sqrt_of.n * y.sqrt_of.d < y.sqrt_of.n * x.sqrt_of.d
RLe(x, y) == x.n * y.d <= y.n * x.d
RAdd(x, y) == Rat(x.n * y.d + y.n * x.d, x.d * y.d)
RSub(x, y) == Rat(x.n * y.d - y.n * x.d, x.d * y.d)
RMul(x, y) ==
    IF IsSurd(y)
    THEN CASE ~IsSurd(x) /\ x.n > 0 ->
                Surd(Rat(x.n * x.n * y.sqrt_of.n, x.d * x.d * y.sqrt_of.d))
    ELSE Rat(x.n * y.n, x.d * y.d)
RDiv(x, y) == Rat(x.n * y.d, x.d * y.n)
RNeg(x) == [n |-> -x.n, d |-> x.d]
RMin(x, y) == IF RLt(y, x) THEN y ELSE x

RECURSIVE ISqrtIn(_, _, _)
ISqrtIn(x, lo, hi) ==
    \* the largest r in lo..hi with r * r <= x, by bisection
    IF lo = hi THEN lo
    ELSE LET mid == (lo + hi + 1) \div 2
         IN  IF mid * mid <= x THEN ISqrtIn(x, mid, hi) ELSE ISqrtIn(x, lo, mid - 1)

ISqrt(x) == ISqrtIn(x, 0, IF x < 46340 THEN x ELSE 46340)

IsSquare(x) == x >= 0 /\ ISqrt(x) * ISqrt(x) = x

\* The colour quantisation step of write_color (256.0 * ...).
ChannelScale == 256

\* f64::sqrt of a quotient of perfect squares, of +infinity, and of any other
\* positive quotient.  (Of a negative number the program gets NaN: no value.)
RSqrt(x) ==
    CASE IsSquare(x.n) /\ IsSquare(x.d) -> [n |-> ISqrt(x.n), d |-> ISqrt(x.d)]
      [] x.n > 0 /\ ~(IsSquare(x.n) /\ IsSquare(x.d)) -> Surd(x)

-----------------------------------------------------------------------------
(* glam::DVec3 *)

V(x, y, z) == <<R(x), R(y), R(z)>>
VZero == V(0, 0, 0)
VAdd(u, v) == <<RAdd(u[1], v[1]), RAdd(u[2], v[2]), RAdd(u[3], v[3])>>
VSub(u, v) == <<RSub(u[1], v[1]), RSub(u[2], v[2]), RSub(u[3], v[3])>>
VNeg(u) == <<RNeg(u[1]), RNeg(u[2]), RNeg(u[3])>>
VScale(c, u) == <<RMul(c, u[1]), RMul(c, u[2]), RMul(c, u[3])>>
VMul(u, v) == <<RMul(u[1], v[1]), RMul(u[2], v[2]), RMul(u[3], v[3])>>
VDivS(u, c) == <<RDiv(u[1], c), RDiv(u[2], c), RDiv(u[3], c)>>
VDot(u, v) == RAdd(RAdd(RMul(u[1], v[1]), RMul(u[2], v[2])), RMul(u[3], v[3]))
VCross(u, v) ==
    << RSub(RMul(u[2], v[3]), RMul(u[3], v[2])),
       RSub(RMul(u[3], v[1]), RMul(u[1], v[3])),
       RSub(RMul(u[1], v[2]), RMul(u[2], v[1])) >>
VLengthSquared(u) == VDot(u, u)
VLength(u) == RSqrt(VLengthSquared(u))
VNormalize(u) == VDivS(u, VLength(u))

-----------------------------------------------------------------------------
(* main.rs: Ray, Interval, HitRecord, Sphere, HittableList *)

None == <<>>
Some(x) == <<x>>

Ray(orig, dir) == [origin |-> orig, direction |-> dir]

RayAt(r, t) == VAdd(r.origin, VScale(t, r.direction))

Interval(min, max) == [min |-> min, max |-> max]

\* Mutant: the upper end is let in.
SurroundsClosedAbove(iv, x) == RLt(iv.min, x) /\ RLe(x, iv.max)

Surrounds(iv, x) == RLt(iv.min, x) /\ RLt(x, iv.max)

\* Mutant: only the lower end is enforced.
ClampBelowOnly(iv, x) == IF RLt(x, iv.min) THEN iv.min ELSE x

Clamp(iv, x) ==
    IF RLt(x, iv.min) THEN iv.min
    ELSE IF RLt(iv.max, x) THEN iv.max
    ELSE x

\* Mutant: the normal is stored as given, never flipped.
HitRecordNewNoFlip(p, t, mat, r, outward_normal) ==
    [p |-> p, normal |-> outward_normal, mat |-> mat, t |-> t,
     front_face |-> RLt(VDot(r.direction, outward_normal), R(0))]

HitRecordNew(p, t, mat, r, outward_normal) ==
    LET front_face == RLt(VDot(r.direction, outward_normal), R(0))
        normal == IF front_face THEN outward_normal ELSE VNeg(outward_normal)
    IN  [p |-> p, normal |-> normal, mat |-> mat, t |-> t, front_face |-> front_face]

\* Mutant: the larger root is tried first.
SphereHitFarFirst(sp, r, rt) ==
    LET oc == VSub(sp.center, r.origin)
        a == VLengthSquared(r.direction)
        h == VDot(r.direction, oc)
        c == RSub(VLengthSquared(oc), RMul(sp.radius, sp.radius))
        discriminant == RSub(RMul(h, h), RMul(a, c))
    IN  IF RLt(discriminant, R(0)) THEN None
        ELSE
            LET sqrtd == RSqrt(discriminant)
                root1 == RDiv(RAdd(h, sqrtd), a)
                root2 == RDiv(RSub(h, sqrtd), a)
                rec(root) ==
                    LET p == RayAt(r, root)
                    IN  HitRecordNew(p, root, sp.mat, r,
                                     VDivS(VSub(p, sp.center), sp.radius))
            IN  IF Surrounds(rt, root1) THEN Some(rec(root1))
                ELSE IF Surrounds(rt, root2) THEN Some(rec(root2))
                ELSE None

SphereHit(sp, r, rt) ==
    LET oc == VSub(sp.center, r.origin)
        a == VLengthSquared(r.direction)
        h == VDot(r.direction, oc)
        c == RSub(VLengthSquared(oc), RMul(sp.radius, sp.radius))
        discriminant == RSub(RMul(h, h), RMul(a, c))
    IN  IF RLt(discriminant, R(0)) THEN None
        ELSE
            LET sqrtd == RSqrt(discriminant)
                root1 == RDiv(RSub(h, sqrtd), a)
                root2 == RDiv(RAdd(h, sqrtd), a)
                rec(root) ==
                    LET p == RayAt(r, root)
                    IN  HitRecordNew(p, root, sp.mat, r,
                                     VDivS(VSub(p, sp.center), sp.radius))
            IN  IF Surrounds(rt, root1) THEN Some(rec(root1))
                ELSE IF Surrounds(rt, root2) THEN Some(rec(root2))
                ELSE None

\* Mutant: every object is queried on the whole range.
HitLoopBodyWholeRange(st, obj, r, rt) ==
    LET got == SphereHit(obj, r, Interval(rt.min, rt.max))
    IN  IF got # None
        THEN [closest_so_far |-> got[1].t, hit_anything |-> got]
        ELSE st

\* One iteration of the loop of HittableList::hit on object obj, from the
\* loop state st = [closest_so_far, hit_anything].
HitLoopBody(st, obj, r, rt) ==
    LET got == SphereHit(obj, r, Interval(rt.min, st.closest_so_far))
    IN  IF got # None
        THEN [closest_so_far |-> got[1].t, hit_anything |-> got]
        ELSE st

RECURSIVE HitLoop(_, _, _, _)
HitLoop(st, objs, r, rt) ==
    IF objs = <<>> THEN st
    ELSE HitLoop(HitLoopBody(st, Head(objs), r, rt), Tail(objs), r, rt)

HittableListHit(objs, r, rt) ==
    HitLoop([closest_so_far |-> rt.max, hit_anything |-> None], objs, r, rt).hit_anything

-----------------------------------------------------------------------------
(* material.rs: the materials a Sphere can carry *)

Lambertian(albedo) == [kind |-> "Lambertian", albedo |-> albedo]
Metal(albedo, fuzz) == [kind |-> "Metal", albedo |-> albedo, fuzz |-> fuzz]
Dielectric(refraction_index) ==
    [kind |-> "Dielectric", refraction_index |-> refraction_index]

Color(r, g, b) == <<r, g, b>>

Sphere(center, radius, mat) == [center |-> center, radius |-> radius, mat |-> mat]

-----------------------------------------------------------------------------
(* HittableList::hit, one loop iteration per step *)

\* The longest object list of a scene.
MaxObjects == 3

MatGround == Lambertian(Color(Rat(1, 2), Rat(1, 2), Rat(1, 2)))
MatGlass == Dielectric(Rat(3, 2))
MatMetal == Metal(Color(Rat(7, 10), Rat(3, 5), Rat(1, 2)), R(0))

\* Spheres of radius 5 placed so that, for a ray along the x axis from the
\* origin, the discriminant is a perfect square (or negative):
\* roots 0/10, 10/16, 5/15, 3/3 (tangent), none, -5/5.
HitSpheres ==
    { Sphere(V(5, 0, 0), R(5), MatGround),
      Sphere(V(13, 4, 0), R(5), MatGlass),
      Sphere(V(10, 0, 0), R(5), MatMetal),
      Sphere(V(3, 5, 0), R(5), MatGlass),
      Sphere(V(0, 6, 0), R(5), MatMetal),
      Sphere(V(0, 0, 0), R(5), MatGlass) }

HitRays ==
    { Ray(VZero, V(1, 0, 0)), Ray(VZero, V(2, 0, 0)), Ray(VZero, V(-1, 0, 0)) }

HitIntervals ==
    { Interval(Rat(1, 1000), Infinity), Interval(R(0), R(10)),
      Interval(R(5), R(16)), Interval(R(3), R(5)) }

SeqsUpTo(S, n) == UNION { [1..m -> S] : m \in 0..n }

ParkHit ==
    /\ ray_t = Interval(R(0), R(0))
    /\ k = 0
    /\ closest_so_far = R(0)
    /\ hit_anything = None
    /\ obj_t = Interval(R(0), R(0))
    /\ obj_rec = None

ParkColor == depth = 0 /\ draws = <<>> /\ calls = <<>>

ParkScatter == scat = None

ParkRender ==
    /\ cam = None
    /\ i = 0
    /\ j = 0
    /\ s = 0
    /\ pixel_color = VZero
    /\ sampled = <<>>
    /\ out = <<>>
    /\ err = <<>>

InitHit ==
    /\ ParkColor /\ ParkScatter /\ ParkRender
    /\ pc = "scan"
    /\ ray \in HitRays
    /\ ray_t \in HitIntervals
    /\ objects \in SeqsUpTo(HitSpheres, MaxObjects)
    /\ k = 0
    /\ closest_so_far = ray_t.max
    /\ hit_anything = None
    /\ obj_t = ray_t
    /\ obj_rec = None

\* for obj in &self.objects { ... }
HitScan ==
    /\ pc = "scan"
    /\ k < Len(objects)
    /\ LET st == HitLoopBody([closest_so_far |-> closest_so_far,
                              hit_anything |-> hit_anything],
                             objects[k + 1], ray, ray_t)
       IN  /\ closest_so_far' = st.closest_so_far
           /\ hit_anything' = st.hit_anything
    /\ obj_t' = Interval(ray_t.min, closest_so_far)
    /\ obj_rec' = SphereHit(objects[k + 1], ray, Interval(ray_t.min, closest_so_far))
    /\ k' = k + 1
    /\ UNCHANGED <<pc, ray, ray_t, objects, colorVars, scat, renderVars>>

\* the loop is over: hit_anything is returned
HitReturn ==
    /\ pc = "scan"
    /\ k = Len(objects)
    /\ pc' = "done"
    /\ UNCHANGED <<ray, objects, hitVars, colorVars, scat, renderVars>>

NextHit == HitScan \/ HitReturn

SpecHit == InitHit /\ [][NextHit]_vars

-----------------------------------------------------------------------------
(* Claims about Sphere::hit, HitRecord::new and HittableList::hit *)

\* What object m reports on the whole range ray_t.
FullHit(m) == SphereHit(objects[m], ray, ray_t)
Hitters == { m \in 1..Len(objects) : FullHit(m) # None }

\* Every parameter at which a ray of HitRays can meet a sphere of HitSpheres
\* is a half-integer between -16 and 16.
RootCandidates == { Rat(n, 2) : n \in -32..32 }

\* t is a root: the point of the ray at t lies on the sphere.
OnSphere(sp, r, t) ==
    VLengthSquared(VSub(RayAt(r, t), sp.center)) = RMul(sp.radius, sp.radius)

IsRootInside(sp, r, rt, t) ==
    RLt(rt.min, t) /\ RLt(t, rt.max) /\ OnSphere(sp, r, t)

\* C1: when HittableList::hit returns, its record's t is the least t any
\* object reports on (ray_t.min, ray_t.max), whatever the insertion order, and
\* it returns None exactly when no object reports a hit there.
C1_NearestHit ==
    pc = "done" =>
        IF Hitters = {}
        THEN hit_anything = None
        ELSE /\ hit_anything # None
             /\ \E m \in Hitters : FullHit(m)[1].t = hit_anything[1].t
             /\ \A m \in Hitters : RLe(hit_anything[1].t, FullHit(m)[1].t)

\* A farther object was inserted before the nearest one, and the nearest won.
C1_Witness ==
    /\ pc = "done"
    /\ hit_anything # None
    /\ \E m1, m2 \in Hitters :
          /\ m1 < m2
          /\ RLt(FullHit(m2)[1].t, FullHit(m1)[1].t)
          /\ hit_anything[1].t = FullHit(m2)[1].t

\* C5: Sphere::hit returns the least root lying strictly inside the interval
\* it was given (the smaller root if it qualifies, else the larger), None if
\* no root does; a root equal to an end of the interval never qualifies.
C5_RootSelection ==
    k >= 1 =>
        IF obj_rec = None
        THEN \A t \in RootCandidates : ~IsRootInside(objects[k], ray, obj_t, t)
        ELSE /\ RLt(obj_t.min, obj_rec[1].t) /\ RLt(obj_rec[1].t, obj_t.max)
             /\ OnSphere(objects[k], ray, obj_rec[1].t)
             /\ \A t \in RootCandidates :
                   IsRootInside(objects[k], ray, obj_t, t) => RLe(obj_rec[1].t, t)

\* The smaller root sits exactly on the lower end of the interval, so the
\* larger root is the one returned.
C5_Witness ==
    /\ k >= 1
    /\ obj_rec # None
    /\ OnSphere(objects[k], ray, obj_t.min)
    /\ RLt(obj_t.min, obj_rec[1].t)

\* The outward normal Sphere::hit hands to HitRecord::new.
OutwardNormal(sp, p) == VDivS(VSub(p, sp.center), sp.radius)

\* C6: every record built has front_face exactly when the ray runs against
\* the outward normal, stores the outward normal or its negation accordingly,
\* and so never has a normal along the ray: dot(direction, normal) <= 0.
C6_NormalAgainstRay ==
    (k >= 1 /\ obj_rec # None) =>
        LET rec == obj_rec[1]
            outward == OutwardNormal(objects[k], rec.p)
            d == VDot(ray.direction, outward)
        IN  /\ rec.front_face <=> RLt(d, R(0))
            /\ rec.normal = IF rec.front_face THEN outward ELSE VNeg(outward)
            /\ RLe(VDot(ray.direction, rec.normal), R(0))

\* A hit from inside the sphere: the stored normal is the flipped one.
C6_Witness ==
    /\ k >= 1
    /\ obj_rec # None
    /\ ~obj_rec[1].front_face
    /\ RLt(R(0), VDot(ray.direction, OutwardNormal(objects[k], obj_rec[1].p)))
    /\ obj_rec[1].normal = VNeg(OutwardNormal(objects[k], obj_rec[1].p))

\* The objects whose hit on the whole range is at the returned t.
Tied == { m \in Hitters : FullHit(m)[1].t = hit_anything[1].t }

FirstOfTies ==
    (pc = "done" /\ hit_anything # None) =>
        \E m \in Tied : /\ \A n \in Tied : m <= n
                        /\ hit_anything = FullHit(m)

\* C10: closest_so_far never increases during the scan, and among objects
\* whose nearest hit is at the same t the record of the earliest one is kept.
C10_TieBreak ==
    /\ [][RLe(closest_so_far', closest_so_far)]_vars
    /\ []FirstOfTies

\* Two different objects tie at the returned t and the earlier one was kept.
C10_Witness ==
    /\ pc = "done"
    /\ hit_anything # None
    /\ \E m1, m2 \in Tied :
          /\ m1 < m2
          /\ FullHit(m1) # FullHit(m2)
          /\ hit_anything = FullHit(m1)

-----------------------------------------------------------------------------
(* material.rs: scatter *)

RAbs(x) == [n |-> Abs(x.n), d |-> x.d]

RECURSIVE RPowi(_, _)
RPowi(x, e) == IF e = 0 THEN R(1) ELSE RMul(x, RPowi(x, e - 1))

\* One turn of the random generator: u is what random_vec3_unit() returns,
\* x what random::<f64>() returns.
Draw(u, x) == [u |-> u, x |-> x]

Vec3Reflect(vec, n) == VSub(vec, VScale(RMul(R(2), VDot(vec, n)), n))

Vec3Refract(uv, n, etai_over_etat) ==
    LET WithPerp(r_out_perp) ==
            \* r_out_parallel, and the sum returned
            VAdd(r_out_perp,
                 VScale(RNeg(RSqrt(RAbs(RSub(R(1), VLengthSquared(r_out_perp))))), n))
        WithCos(cos_theta) ==
            WithPerp(VScale(etai_over_etat, VAdd(uv, VScale(cos_theta, n))))
    IN  WithCos(RMin(VDot(n, VNeg(uv)), R(1)))

\* |x| < 1.0e-8, without forming a product beyond the integer range
NearZero(x) == x.n = 0 \/ (x.d - 1) \div Abs(x.n) >= 100000000

Vec3NearZero(vec) == NearZero(vec[1]) /\ NearZero(vec[2]) /\ NearZero(vec[3])

Scattered(r, attenuation) == Some([ray |-> r, attenuation |-> attenuation])

LambertianScatter(mat, r_in, rec, rnd) ==
    LET drawn == VAdd(rec.normal, rnd.u)
        scatter_direction == IF Vec3NearZero(drawn) THEN rec.normal ELSE drawn
    IN  Scattered(Ray(rec.p, scatter_direction), mat.albedo)

MetalScatter(mat, r_in, rec, rnd) ==
    LET reflected == Vec3Reflect(r_in.direction, rec.normal)
        fuzzed == VAdd(VNormalize(reflected), VScale(RMin(mat.fuzz, R(1)), rnd.u))
    IN  Scattered(Ray(rec.p, fuzzed), mat.albedo)

Reflectance(cosine, refraction_index) ==
    LET r == RDiv(RSub(R(1), refraction_index), RAdd(R(1), refraction_index))
        r0 == RMul(r, r)
    IN  RAdd(r0, RMul(RSub(R(1), r0), RPowi(RSub(R(1), cosine), 5)))

\* Mutant: the ratio is inverted on a back face as well.
RefractionRatioAlwaysInverted(mat, rec) == RDiv(R(1), mat.refraction_index)

\* ri of Dielectric::scatter
RefractionRatio(mat, rec) ==
    IF rec.front_face THEN RDiv(R(1), mat.refraction_index) ELSE mat.refraction_index

\* Each step of Dielectric::scatter takes the values of the lets before it.
DielectricScatter(mat, r_in, rec, rnd) ==
    LET \* cannot_refract || Self::reflectance(cos_theta, ri) > random().  A
        \* draw equal to the reflectance is decided by the rounding of f64,
        \* which the quotients do not carry: it has no value here.
        Direction(ri, unit_direction, cannot_refract, reflectance) ==
            CASE cannot_refract \/ RLt(rnd.x, reflectance)
                    -> Vec3Reflect(unit_direction, rec.normal)
              [] ~cannot_refract /\ RLt(reflectance, rnd.x)
                    -> Vec3Refract(unit_direction, rec.normal, ri)
        WithSin(ri, unit_direction, cos_theta, sin_theta) ==
            Direction(ri, unit_direction, RLt(R(1), RMul(ri, sin_theta)),
                      Reflectance(cos_theta, ri))
        WithCos(ri, unit_direction, cos_theta) ==
            WithSin(ri, unit_direction, cos_theta,
                    RSqrt(RSub(R(1), RMul(cos_theta, cos_theta))))
        WithUnit(ri, unit_direction) ==
            WithCos(ri, unit_direction,
                    RMin(VDot(rec.normal, VNeg(unit_direction)), R(1)))
    IN  Scattered(Ray(rec.p, WithUnit(RefractionRatio(mat, rec),
                                      VNormalize(r_in.direction))),
                  Color(R(1), R(1), R(1)))

\* The trait lets an implementation return None (absorption).  None of the
\* three materials of material.rs does; "Absorbing" stands for any
\* implementation of Material that does.
Absorbing == [kind |-> "Absorbing"]

\* dyn Material: mat.scatter(r_in, rec)
Scatter(mat, r_in, rec, rnd) ==
    CASE mat.kind = "Lambertian" -> LambertianScatter(mat, r_in, rec, rnd)
      [] mat.kind = "Metal" -> MetalScatter(mat, r_in, rec, rnd)
      [] mat.kind = "Dielectric" -> DielectricScatter(mat, r_in, rec, rnd)
      [] mat.kind = "Absorbing" -> None

-----------------------------------------------------------------------------
(* camera.rs: Camera::ray_color *)

\* The deepest recursion a camera allows (max_depth).
MaxDepth == 3

\* The range on which ray_color asks the world for a hit.
ColorRange == Interval(Rat(1, 1000), Infinity)

SkyColor(r) ==
    LET unit_direction == VNormalize(r.direction)
        a == RMul(Rat(1, 2), RAdd(unit_direction[2], R(1)))
    IN  VAdd(VScale(RSub(R(1), a), Color(R(1), R(1), R(1))),
             VScale(a, Color(Rat(1, 2), Rat(7, 10), R(1))))

\* One call of ray_color: its arguments, whether it evaluated world.hit and
\* mat.scatter and what they gave, and the colour it returned.  nan marks a
\* call on a ray of direction zero, whose arithmetic is NaN in the program.
Frame(r, d, looked, rec, asked, sc, ret, nan) ==
    [r |-> r, depth |-> d, looked |-> looked, rec |-> rec, asked |-> asked,
     scat |-> sc, ret |-> ret, nan |-> nan]

\* Mutant: the bounce budget drops by two.
DeeperByTwo(d) == d - 2

\* the depth handed to the recursive call
Deeper(d) == d - 1

\* ray_color(r, d, world), as the sequence of the calls it makes, outermost
\* first; the colour returned is that of the first frame.  rnd holds one Draw
\* for each call that reaches a surface.
RECURSIVE RayColorCalls(_, _, _, _)
RayColorCalls(r, d, world, rnd) ==
    IF d <= 0
    THEN << Frame(r, d, FALSE, None, FALSE, None, VZero, FALSE) >>
    ELSE IF r.direction = VZero
    THEN << Frame(r, d, TRUE, None, FALSE, None, VZero, TRUE) >>
    ELSE
        LET \* return attenuation * Self::ray_color(&scattered, depth - 1, world)
            Attenuated(rec, sc, sub) ==
                << Frame(r, d, TRUE, rec, TRUE, sc,
                         VMul(sc[1].attenuation, sub[1].ret), FALSE) >> \o sub
            \* return 0.5 * Self::ray_color(&Ray::new(rec.p, direction), depth - 1, world)
            Halved(rec, sc, sub) ==
                << Frame(r, d, TRUE, rec, TRUE, sc,
                         VScale(Rat(1, 2), sub[1].ret), FALSE) >> \o sub
            \* if let Some((scattered, attenuation)) = rec.mat.scatter(r, &rec)
            Asked(rec, sc) ==
                IF sc # None
                THEN Attenuated(rec, sc,
                         RayColorCalls(sc[1].ray, Deeper(d), world, Tail(rnd)))
                ELSE Halved(rec, sc,
                         RayColorCalls(Ray(rec[1].p, VAdd(rec[1].normal, Head(rnd).u)),
                                       Deeper(d), world, Tail(rnd)))
            \* if let Some(rec) = world.hit(r, Interval::new(0.001, INFINITY))
            Looked(rec) ==
                IF rec # None
                THEN Asked(rec, Scatter(rec[1].mat, r, rec[1], Head(rnd)))
                ELSE << Frame(r, d, TRUE, None, FALSE, None, SkyColor(r), FALSE) >>
        IN  Looked(HittableListHit(world, r, ColorRange))

RayColor(r, d, world, rnd) == RayColorCalls(r, d, world, rnd)[1].ret

\* A scene on the x axis: every ray along the axis meets every sphere head-on,
\* and every square root taken is that of a perfect square.
AxisLambertian == Sphere(V(10, 0, 0), R(5), MatGround)
AxisMetal == Sphere(V(-10, 0, 0), R(5), MatMetal)
AxisFuzzyMetal ==
    Sphere(V(-10, 0, 0), R(5), Metal(Color(Rat(1, 2), R(1), Rat(1, 4)), Rat(1, 2)))
AxisGlass == Sphere(V(10, 0, 0), R(5), MatGlass)
AxisAbsorbing == Sphere(V(10, 0, 0), R(5), Absorbing)

ColorWorlds ==
    { <<>>, <<AxisLambertian>>, <<AxisLambertian, AxisMetal>>,
      <<AxisFuzzyMetal, AxisLambertian>>, <<AxisGlass>>, <<AxisGlass, AxisMetal>>,
      <<AxisAbsorbing>>, <<AxisMetal, AxisAbsorbing>> }

ColorRays == { Ray(VZero, V(1, 0, 0)), Ray(VZero, V(-2, 0, 0)) }

Draws == { Draw(u, x) : u \in {V(1, 0, 0), V(-1, 0, 0)}, x \in {R(0), Rat(1, 2)} }

NoNaN(cs) == \A n \in 1..Len(cs) : ~cs[n].nan

InitColor ==
    /\ ParkHit /\ ParkScatter /\ ParkRender
    /\ pc = "call"
    /\ ray \in ColorRays
    /\ objects \in ColorWorlds
    /\ depth \in 0..MaxDepth
    /\ draws \in [1..depth -> Draws]
    /\ NoNaN(RayColorCalls(ray, depth, objects, draws))
    /\ calls = <<>>

\* Self::ray_color(&r, depth, &world)
RayColorCall ==
    /\ pc = "call"
    /\ calls' = RayColorCalls(ray, depth, objects, draws)
    /\ pc' = "done"
    /\ UNCHANGED <<ray, objects, hitVars, depth, draws, scat, renderVars>>

NextColor == RayColorCall

SpecColor == InitColor /\ [][NextColor]_vars

\* C2: a call with depth > 0 whose ray meets an object whose material does not
\* scatter returns black and traces no further ray.
C2_AbsorbedIsBlack ==
    pc = "done" =>
        \A n \in 1..Len(calls) :
            (calls[n].depth > 0 /\ calls[n].rec # None /\ calls[n].asked
                /\ calls[n].scat = None)
            => (calls[n].ret = VZero /\ n = Len(calls))

\* C3: each nested call has depth one less than its caller, a call with
\* depth <= 0 returns black without asking the world or a material, and a
\* call with depth = max_depth >= 0 makes at most max_depth nested calls.
C3_BoundedRecursion ==
    pc = "done" =>
        /\ Len(calls) >= 1
        /\ calls[1].depth = depth
        /\ \A n \in 2..Len(calls) : calls[n].depth = calls[n - 1].depth - 1
        /\ \A n \in 1..Len(calls) :
              calls[n].depth <= 0 =>
                  /\ ~calls[n].looked /\ ~calls[n].asked
                  /\ calls[n].ret = VZero
                  /\ n = Len(calls)
        /\ Len(calls) - 1 <= depth

\* Every ray met a surface and every material scattered, until the budget of
\* at least two bounces ran out.
C3_Witness ==
    /\ pc = "done"
    /\ depth >= 2
    /\ Len(calls) = depth + 1
    /\ calls[Len(calls)].depth = 0
    /\ \A n \in 1..(Len(calls) - 1) : calls[n].rec # None /\ calls[n].scat # None

-----------------------------------------------------------------------------
(* Dielectric::scatter on the records Sphere::hit produces *)

RatIsSquare(x) == IsSquare(x.n) /\ IsSquare(x.d)

\* A glass ball of radius 5 at the origin.
GlassBall(index) == Sphere(VZero, R(5), Dielectric(index))

GlassIndices == { Rat(3, 2), Rat(4, 3), Rat(5, 4), R(1) }

\* Rays that meet the ball from outside (downwards from y = 10) and from
\* inside (upwards from y = 0), at incidence sines 0, 3/5, 4/5 and 1.
GlassRays ==
    { Ray(V(x, 10, 0), V(0, -1, 0)) : x \in {0, -3, -4, -5} }
    \cup { Ray(V(-3, 10, 0), V(0, -2, 0)) }
    \cup { Ray(V(x, 0, 0), V(0, 1, 0)) : x \in {0, -3, -4} }

GlassDraws ==
    { Draw(V(1, 0, 0), x) : x \in {R(0), Rat(1, 4), Rat(1, 2), Rat(99, 100)} }

\* The square roots Dielectric::scatter and vec3_refract take on this ray and
\* this ball are those of perfect squares, and the draw is not the reflectance
\* itself unless refraction is impossible and the draw is not looked at.
GlassExact(r, ball, rnd) ==
    LET WithSin(ri, cos_theta, sin2) ==
            /\ RatIsSquare(sin2)
            /\ \/ RLt(R(1), RMul(ri, RSqrt(sin2)))
               \/ /\ RatIsSquare(RAbs(RSub(R(1), RMul(RMul(ri, ri), sin2))))
                  /\ Reflectance(cos_theta, ri) # rnd.x
        WithCos(ri, cos_theta) ==
            WithSin(ri, cos_theta, RSub(R(1), RMul(cos_theta, cos_theta)))
        WithRec(rec) ==
            WithCos(RefractionRatio(ball.mat, rec),
                    RMin(VDot(rec.normal, VNeg(VNormalize(r.direction))), R(1)))
    IN  WithRec(SphereHit(ball, r, ColorRange)[1])

InitGlass ==
    /\ ParkHit /\ ParkRender
    /\ pc = "scatter"
    /\ ray \in GlassRays
    /\ \E index \in GlassIndices : objects = << GlassBall(index) >>
    /\ depth = 1
    /\ draws \in [1..1 -> GlassDraws]
    /\ GlassExact(ray, objects[1], draws[1])
    /\ calls = <<>>
    /\ scat = None

\* rec.mat.scatter(r, &rec) for the record world.hit returns
GlassScatter ==
    /\ pc = "scatter"
    /\ LET rec == HittableListHit(objects, ray, ColorRange)
       IN  /\ rec # None
           /\ scat' = Some([rec |-> rec[1],
                            out |-> Scatter(rec[1].mat, ray, rec[1], draws[1])])
    /\ pc' = "scattered"
    /\ UNCHANGED <<ray, objects, hitVars, colorVars, renderVars>>

NextGlass == GlassScatter

SpecGlass == InitGlass /\ [][NextGlass]_vars

\* The ratio of indices across the surface, and the sine of the incidence
\* angle taken from the cross product.
SnellRatio == IF scat[1].rec.front_face
              THEN RDiv(R(1), scat[1].rec.mat.refraction_index)
              ELSE scat[1].rec.mat.refraction_index
IncidenceSine == VLength(VCross(VNormalize(ray.direction), scat[1].rec.normal))
IncidenceCosine == VDot(VNeg(VNormalize(ray.direction)), scat[1].rec.normal)
Mirrored == Vec3Reflect(VNormalize(ray.direction), scat[1].rec.normal)

\* C9: Dielectric::scatter always scatters, with attenuation (1, 1, 1); when
\* ri * sin_theta > 1 the scattered direction is the reflection whatever the
\* random draw; a direction other than the reflection is taken only when
\* ri * sin_theta <= 1 and the Schlick reflectance is not above the draw.
C9_DielectricBranches ==
    pc = "scattered" =>
        /\ scat[1].out # None
        /\ scat[1].out[1].attenuation = Color(R(1), R(1), R(1))
        /\ scat[1].out[1].ray.origin = scat[1].rec.p
        /\ RLt(R(1), RMul(SnellRatio, IncidenceSine))
              => scat[1].out[1].ray.direction = Mirrored
        /\ scat[1].out[1].ray.direction # Mirrored
              => /\ RLe(RMul(SnellRatio, IncidenceSine), R(1))
                 /\ RLe(Reflectance(IncidenceCosine, SnellRatio), draws[1].x)

\* Total internal reflection with a draw that, had refraction been possible,
\* would have chosen it.
C9_Witness ==
    /\ pc = "scattered"
    /\ ~scat[1].rec.front_face
    /\ RLt(R(1), RMul(SnellRatio, IncidenceSine))
    /\ RLe(Reflectance(IncidenceCosine, SnellRatio), draws[1].x)
    /\ scat[1].out[1].ray.direction = Mirrored
    /\ scat[1].out[1].attenuation = Color(R(1), R(1), R(1))

-----------------------------------------------------------------------------
(* color.rs: write_color *)

\* `as i32` on a value within the i32 range: truncation towards zero
AsI32(x) ==
    IF IsSurd(x) THEN ISqrt(x.sqrt_of.n \div x.sqrt_of.d)
    ELSE IF x.n >= 0 THEN x.n \div x.d ELSE -((-x.n) \div x.d)

LinearToGamma(linear_component) ==
    IF RLt(R(0), linear_component) THEN RSqrt(linear_component) ELSE R(0)

\* A printed line: a word, or integers separated by spaces.
TextLine(w) == [text |-> w]
NumLine(ns) == [nums |-> ns]

Intensity == Interval(R(0), Rat(999, 1000))

\* the line write_color prints
WriteColor(color) ==
    LET r == LinearToGamma(color[1])
        g == LinearToGamma(color[2])
        b == LinearToGamma(color[3])
    IN  NumLine(<< AsI32(RMul(R(ChannelScale), Clamp(Intensity, r))),
                   AsI32(RMul(R(ChannelScale), Clamp(Intensity, g))),
                   AsI32(RMul(R(ChannelScale), Clamp(Intensity, b))) >>)

\* The square roots of the positive channel values: the least that prints 1,
\* values in between, the last below the cap 0.999, the cap, above the cap,
\* 1 and above 1.
ChannelRoots ==
    { Rat(1, 256), Rat(1, 2), Rat(3, 4), Rat(15, 16), Rat(399, 400),
      Rat(999, 1000), Rat(1999, 2000), R(1), R(2) }

\* Positive channel values whose square root is irrational.
ChannelSurds == { Rat(1, 3), Rat(1, 2), Rat(999, 1000), R(2) }

\* Channel values below 0, at 0, between 0 and 1, at 1 and above 1.
Channels ==
    { Rat(-1, 2), R(0) } \cup { RMul(q, q) : q \in ChannelRoots } \cup ChannelSurds

InitWrite ==
    /\ ParkHit /\ ParkColor /\ ParkScatter
    /\ pc = "write"
    /\ ray = Ray(VZero, VZero)
    /\ objects = <<>>
    /\ cam = None
    /\ i = 0 /\ j = 0 /\ s = 0
    /\ pixel_color \in { Color(r, g, b) : r \in Channels, g \in Channels, b \in Channels }
    /\ sampled = <<>>
    /\ out = <<>>
    /\ err = <<>>

\* color::write_color(pixel_color)
WriteColorCall ==
    /\ pc = "write"
    /\ out' = Append(out, WriteColor(pixel_color))
    /\ pc' = "written"
    /\ UNCHANGED <<ray, objects, hitVars, colorVars, scat,
                   cam, i, j, s, pixel_color, sampled, err>>

NextWrite == WriteColorCall

SpecWrite == InitWrite /\ [][NextWrite]_vars

\* v = min(255, floor(256 * q)), for the root q of a channel
IsQuantised(q, v) ==
    /\ v * q.d <= 256 * q.n
    /\ v < 255 => 256 * q.n < (v + 1) * q.d

\* v = min(255, floor(256 * sqrt(x))), said on the squares
IsQuantisedRoot(x, v) ==
    /\ v * v * x.d <= 65536 * x.n
    /\ v < 255 => 65536 * x.n < (v + 1) * (v + 1) * x.d

\* C7: for every colour, channels below 0 or above 1 included, write_color
\* prints three integers in 0..255: 0 for a channel that is not positive,
\* else the square root of the channel, capped at 0.999, times 256, truncated.
C7_ChannelRange ==
    pc = "written" =>
        /\ Len(out) = 1
        /\ Len(out[1].nums) = 3
        /\ \A c \in 1..3 :
              /\ out[1].nums[c] \in 0..255
              /\ IF RLe(pixel_color[c], R(0))
                 THEN out[1].nums[c] = 0
                 ELSE \/ \E q \in ChannelRoots :
                            /\ RMul(q, q) = pixel_color[c]
                            /\ IsQuantised(q, out[1].nums[c])
                      \/ /\ pixel_color[c] \in ChannelSurds
                         /\ IsQuantisedRoot(pixel_color[c], out[1].nums[c])

\* A negative channel printed as 0 and a channel above 1 printed as 255.
C7_Witness ==
    /\ pc = "written"
    /\ RLt(pixel_color[1], R(0)) /\ out[1].nums[1] = 0
    /\ RLt(R(1), pixel_color[2]) /\ out[1].nums[2] = 255
    /\ pixel_color[3] = Rat(1, 4) /\ out[1].nums[3] = 128

-----------------------------------------------------------------------------
(* camera.rs: Camera::new, get_ray, render *)

CameraParams(aspect_ratio, image_width, samples_per_pixel, max_depth, vfov, lookfrom, lookat, vup, defocus_angle, focus_dist) ==
    [aspect_ratio |-> aspect_ratio, image_width |-> image_width,
     samples_per_pixel |-> samples_per_pixel, max_depth |-> max_depth,
     vfov |-> vfov, lookfrom |-> lookfrom, lookat |-> lookat, vup |-> vup,
     defocus_angle |-> defocus_angle, focus_dist |-> focus_dist]

\* deg.to_radians().tan(), at the two angles whose tangent is rational
TanDegrees(deg) == CASE deg = R(0) -> R(0) [] deg = R(45) -> R(1)

CameraNew(params) ==
    LET image_height == AsI32(RDiv(R(params.image_width), params.aspect_ratio))
        center == params.lookfrom
        h == TanDegrees(RDiv(params.vfov, R(2)))
        viewport_height == RMul(RMul(R(2), h), params.focus_dist)
        viewport_width ==
            RMul(viewport_height, RDiv(R(params.image_width), R(image_height)))
        w == VNormalize(VSub(params.lookfrom, params.lookat))
        u == VNormalize(VCross(params.vup, w))
        v == VCross(w, u)
        viewport_u == VScale(viewport_width, u)
        viewport_v == VScale(viewport_height, VNeg(v))
        pixel_delta_u == VDivS(viewport_u, R(params.image_width))
        pixel_delta_v == VDivS(viewport_v, R(image_height))
        viewport_upper_left ==
            VSub(VSub(VSub(center, VScale(params.focus_dist, w)),
                      VDivS(viewport_u, R(2))),
                 VDivS(viewport_v, R(2)))
        pixel00_loc ==
            VAdd(viewport_upper_left,
                 VScale(Rat(1, 2), VAdd(pixel_delta_u, pixel_delta_v)))
        defocus_radius ==
            RMul(params.focus_dist, TanDegrees(RDiv(params.defocus_angle, R(2))))
    IN  [image_width |-> params.image_width,
         image_height |-> image_height,
         samples_per_pixel |-> params.samples_per_pixel,
         max_depth |-> params.max_depth,
         pixel_samples_scale |-> RDiv(R(1), R(params.samples_per_pixel)),
         center |-> center,
         pixel00_loc |-> pixel00_loc,
         pixel_delta_u |-> pixel_delta_u,
         pixel_delta_v |-> pixel_delta_v,
         defocus_angle |-> params.defocus_angle,
         defocus_disk_u |-> VScale(defocus_radius, u),
         defocus_disk_v |-> VScale(defocus_radius, v)]

\* What the random generator hands to one get_ray: the two coordinates of
\* sample_square() and the point of random_vec3_on_unit_disc().
Jitter(ox, oy, px, py) == [offset |-> <<ox, oy>>, disk |-> <<px, py>>]

DefocusDiskSample(c, p) ==
    VAdd(VAdd(c.center, VScale(p[1], c.defocus_disk_u)), VScale(p[2], c.defocus_disk_v))

GetRay(c, pi, pj, jit) ==
    LET pixel_sample ==
            VAdd(VAdd(c.pixel00_loc,
                      VScale(RAdd(R(pi), jit.offset[1]), c.pixel_delta_u)),
                 VScale(RAdd(R(pj), jit.offset[2]), c.pixel_delta_v))
        ray_origin == IF RLe(c.defocus_angle, R(0)) THEN c.center
                      ELSE DefocusDiskSample(c, jit.disk)
        ray_direction == VSub(pixel_sample, ray_origin)
    IN  Ray(ray_origin, ray_direction)

\* Mutant: the line "255" is left out.
HeaderWithoutMaxval(c) ==
    << TextLine("P3"), NumLine(<<c.image_width, c.image_height>>) >>

\* the three println! that open render
Header(c) ==
    << TextLine("P3"), NumLine(<<c.image_width, c.image_height>>), NumLine(<<255>>) >>

\* Mutant: the accumulator keeps the colour of the pixel before.
ColorCarriedOver == pixel_color

\* Color::default()
ColorDefault == VZero

\* A camera at the origin looking down the z axis, 90 degrees of view, the
\* viewport at distance 1; a glass ball of radius 2 around it.
RenderImages == { <<2, R(1)>>, <<3, Rat(3, 2)>> }

RenderParams ==
    { CameraParams(asp[2], asp[1], spp, md, R(90), VZero, V(0, 0, -1), V(0, 1, 0),
                   da, R(1)) :
        asp \in RenderImages, spp \in {1, 2}, md \in {0, 2},
        da \in {R(0), R(90)} }

RenderWorlds == { <<>>, << Sphere(VZero, R(2), MatGlass) >> }

JitterOffsets == { Rat(-3, 8), Rat(-1, 8), R(0), Rat(3, 8) }
JitterDisk == { <<R(0), R(0)>>, <<Rat(1, 2), R(0)>> }
RenderDraws == { Draw(V(1, 0, 0), x) : x \in {R(0), Rat(1, 2)} }

\* The length of the ray's direction is rational.
ExactRay(r) == RatIsSquare(VLengthSquared(r.direction))

InitRender ==
    /\ ParkHit /\ ParkColor /\ ParkScatter
    /\ pc = "header"
    /\ ray = Ray(VZero, VZero)
    /\ objects \in RenderWorlds
    /\ \E params \in RenderParams :
          \* the glass ball and the defocus disk come with one sample per
          \* pixel, the disk with the square image and no world
          /\ objects = <<>> \/ (params.samples_per_pixel = 1 /\ params.max_depth = 2)
          /\ params.defocus_angle = R(0)
             \/ (objects = <<>> /\ params.image_width = 2
                 /\ params.samples_per_pixel = 1 /\ params.max_depth = 2)
          /\ cam = CameraNew(params)
    /\ i = 0 /\ j = 0 /\ s = 0
    /\ pixel_color = VZero
    /\ sampled = <<>>
    /\ out = <<>>
    /\ err = <<>>

\* println!("P3"); println!("{} {}", ...); println!("255");
RenderHeader ==
    /\ pc = "header"
    /\ out' = out \o Header(cam)
    /\ pc' = "scanline"
    /\ UNCHANGED <<ray, objects, hitVars, colorVars, scat,
                   cam, i, j, s, pixel_color, sampled, err>>

\* for j in 0..self.image_height { eprintln!(...)
RenderScanline ==
    /\ pc = "scanline"
    /\ j < cam.image_height
    /\ err' = Append(err, cam.image_height - j)
    /\ i' = 0
    /\ pc' = "pixel"
    /\ UNCHANGED <<ray, objects, hitVars, colorVars, scat,
                   cam, j, s, pixel_color, sampled, out>>

\* for i in 0..self.image_width { let mut pixel_color = Color::default();
RenderPixel ==
    /\ pc = "pixel"
    /\ i < cam.image_width
    /\ pixel_color' = ColorDefault
    /\ s' = 0
    /\ sampled' = <<>>
    /\ pc' = "sample"
    /\ UNCHANGED <<ray, objects, hitVars, colorVars, scat, cam, i, j, out, err>>

\* let r = self.get_ray(i, j); pixel_color += Self::ray_color(&r, self.max_depth, &world);
RenderSample ==
    /\ pc = "sample"
    /\ s < cam.samples_per_pixel
    /\ \E ox \in JitterOffsets, oy \in JitterOffsets,
          p \in (IF RLe(cam.defocus_angle, R(0)) THEN {<<R(0), R(0)>>} ELSE JitterDisk),
          dr \in RenderDraws :
          LET jit == Jitter(ox, oy, p[1], p[2])
              rnd == [n \in 1..cam.max_depth |-> dr]
              r == GetRay(cam, i, j, jit)
              cs == RayColorCalls(r, cam.max_depth, objects, rnd)
          IN  /\ ExactRay(r)
              /\ NoNaN(cs)
              /\ ray' = r
              /\ pixel_color' = VAdd(pixel_color, cs[1].ret)
              /\ sampled' = Append(sampled, [i |-> i, j |-> j, jitter |-> jit,
                                             draws |-> rnd, color |-> cs[1].ret])
    /\ s' = s + 1
    /\ UNCHANGED <<pc, objects, hitVars, colorVars, scat, cam, i, j, out, err>>

\* color::write_color(self.pixel_samples_scale * pixel_color); and the next i
RenderWrite ==
    /\ pc = "sample"
    /\ s = cam.samples_per_pixel
    /\ out' = Append(out, WriteColor(VScale(cam.pixel_samples_scale, pixel_color)))
    /\ i' = i + 1
    /\ pc' = "pixel"
    /\ UNCHANGED <<ray, objects, hitVars, colorVars, scat,
                   cam, j, s, pixel_color, sampled, err>>

\* the loop over i is over: the next j
RenderEndScanline ==
    /\ pc = "pixel"
    /\ i = cam.image_width
    /\ j' = j + 1
    /\ i' = 0
    /\ pc' = "scanline"
    /\ UNCHANGED <<ray, objects, hitVars, colorVars, scat,
                   cam, s, pixel_color, sampled, out, err>>

\* the loop over j is over: render returns
RenderReturn ==
    /\ pc = "scanline"
    /\ j = cam.image_height
    /\ pc' = "done"
    /\ UNCHANGED <<ray, objects, hitVars, colorVars, scat, renderVars>>

NextRender ==
    \/ RenderHeader
    \/ RenderScanline
    \/ RenderPixel
    \/ RenderSample
    \/ RenderWrite
    \/ RenderEndScanline
    \/ RenderReturn

SpecRender == InitRender /\ [][NextRender]_vars

\* The line of one pixel: three numbers.
IsPixelLine(l) == "nums" \in DOMAIN l /\ Len(l.nums) = 3

\* C4: render writes "P3", then "<image_width> <image_height>", then "255",
\* then one line per pixel and nothing else: the pixel (i, j) is line
\* 4 + j * image_width + i, rows from the top and each row from the left, so
\* that a finished render has written image_width * image_height pixel lines.
C4_OutputOrder ==
    /\ pc = "header" => out = <<>>
    /\ pc # "header" =>
          /\ i <= cam.image_width /\ j <= cam.image_height
          /\ Len(out) = 3 + j * cam.image_width + i
          /\ out[1] = TextLine("P3")
          /\ out[2] = NumLine(<<cam.image_width, cam.image_height>>)
          /\ out[3] = NumLine(<<255>>)
          /\ \A n \in 4..Len(out) : IsPixelLine(out[n])
    /\ (pc \notin {"header", "sample"} /\ sampled # <<>>) =>
          \A n \in 1..Len(sampled) :
              Len(out) = 4 + sampled[n].j * cam.image_width + sampled[n].i
    /\ pc = "done" => Len(out) = 3 + cam.image_width * cam.image_height

C4_Witness ==
    /\ pc = "done"
    /\ cam.image_width = 3 /\ cam.image_height = 2
    /\ Len(out) = 9
    /\ out[4] # out[9]

RECURSIVE SampleSum(_)
SampleSum(ss) ==
    IF ss = <<>> THEN VZero
    ELSE VAdd(SampleSum(SubSeq(ss, 1, Len(ss) - 1)), ss[Len(ss)].color)

\* C8: the accumulator of a pixel starts from zero and holds the sum of the
\* ray_color results of the rays get_ray made for that pixel's own (i, j);
\* the line written for the pixel is that sum of exactly samples_per_pixel
\* results, scaled by 1 / samples_per_pixel; no step of render changes the
\* camera or the world.
C8_PixelIndependence ==
    /\ [][cam' = cam /\ objects' = objects]_vars
    /\ [](pc = "sample" =>
            /\ Len(sampled) = s
            /\ pixel_color = SampleSum(sampled)
            /\ \A n \in 1..Len(sampled) :
                  /\ sampled[n].i = i /\ sampled[n].j = j
                  /\ sampled[n].color =
                        RayColor(GetRay(cam, i, j, sampled[n].jitter),
                                 cam.max_depth, objects, sampled[n].draws))
    /\ []((pc \notin {"header", "sample"} /\ Len(out) > 3) =>
            /\ Len(sampled) = cam.samples_per_pixel
            /\ out[Len(out)] =
                  WriteColor(VScale(RDiv(R(1), R(cam.samples_per_pixel)),
                                    SampleSum(sampled))))

C8_Witness ==
    /\ pc = "pixel"
    /\ Len(out) >= 5
    /\ out[Len(out) - 1].nums # <<0, 0, 0>>
    /\ Len(sampled) = 2
    /\ sampled[1].color # sampled[2].color
    /\ objects = <<>>

====
